---------------------------- MODULE Spec2Model ----------------------------
(***************************************************************************)
(* A model of the SimPy conversion of the AGPSS two-stage queueing network *)
(* in src/SimulacioExercici1.  Two of the source variants are modelled:    *)
(*                                                                         *)
(*   "statistics"  pyhtonsimulationwithstatistics.py : the lane gates are  *)
(*                 BatchAssembler objects (release-all policy);            *)
(*   "graph"       pyhtonsimulationWOAWGraph.py : the lane gates are the   *)
(*                 module counters ASSEMBLEQUEO / ASSEMBLEQUET (lossy      *)
(*                 policy) and a utilization monitor process runs.         *)
(*                 PySimWOAssemblerWorks.py has the same job_process.      *)
(*                                                                         *)
(*   "works"       PySimWOAssemblerWorks.py : the lossy job_process of the *)
(*                 graph variant with the threshold written as a literal,  *)
(*                 no monitor, and a report() that divides by the lengths  *)
(*                 of the per-lane wait-time lists without a guard.        *)
(*                                                                         *)
(* The variant is chosen in Init and never changes.  The scheduler and the *)
(* priority resources are the SimPy library's (simpy.Environment and       *)
(* simpy.PriorityResource); they are modelled by what the library does at  *)
(* the calls the source makes:                                             *)
(*   - the event queue is ordered by (time, urgency, insertion order);     *)
(*     process starts are urgent, timeouts and succeed() are normal;       *)
(*   - request() puts the request in the put queue, kept sorted by         *)
(*     (priority, request time) with the SMALLER priority number first,    *)
(*     and then serves the head of the queue if a unit is free;            *)
(*   - a grant, a release and a gate release are events: the process that  *)
(*     waits for one resumes when the event is processed, at the same      *)
(*     virtual time but after the events scheduled before it.              *)
(* Virtual time is an integer; every random draw is a choice from a small  *)
(* set of values the distribution can produce.                             *)
(***************************************************************************)
EXTENDS Integers, Sequences, FiniteSets, TLC

VARIABLES
    variant,        \* which source file runs: "statistics", "graph", "works"
    batch_size,     \* the value the module constant BATCH_SIZE is set to
    until,          \* run_simulation's argument until_time
    phase,          \* "running" (inside env.run), "finished" (env.run
                    \* returned), "reported" (stats.report() returned) or
                    \* "report_failed" (stats.report() raised)
    now,            \* env.now
    evq,            \* the environment's event queue, in firing order
    job_id,         \* job_generator's local job_id
    proc,           \* per job: the position and locals of its job_process
    mac,            \* simpy.PriorityResource mac: [users, queue, requests]
    cam,            \* simpy.PriorityResource cam: [users, queue, requests]
    assembler,      \* lane -> BatchAssembler fields (statistics variant)
    ASSEMBLEQUEO,   \* module counter of lane queo (graph variant)
    ASSEMBLEQUET,   \* module counter of lane quet (graph variant)
    stats,          \* the StatisticsCollector's fields
    printed,        \* the averages report() computed and printed
    run,            \* 0: a single invocation of run_simulation; 1, 2: the
                    \* first and the second of two successive invocations
                    \* in one process, both after random.seed(s)
    tape,           \* history: the values the seeded generator returned to
                    \* the first invocation, in call order
    pos,            \* the number of values the second invocation has drawn
    first           \* history: the counters the first invocation reported

vars == <<variant, batch_size, until, phase, now, evq, job_id, proc, mac, cam,
          assembler, ASSEMBLEQUEO, ASSEMBLEQUET, stats, printed, run, tape,
          pos, first>>

---------------------------------------------------------------------------
(* Parameters.  The source's values (capacities 6 and 12, batches of 200,  *)
(* 10000 jobs, a horizon of 1440) are scaled down so that queueing, batch  *)
(* releases, the generator's cap and the horizon all happen within the     *)
(* explored runs.                                                          *)

MAC_CAPACITY == 1
CAM_CAPACITY == 1
BATCH_SIZE == 3
max_jobs == 3
SIMULATION_TIME == 4
MaxDelay == 2

Jobs == 1..max_jobs
Lanes == {"queo", "quet"}
Variants == {"statistics", "graph", "works"}

\* the values the random module's generator hands to one call; what a call
\* returns is a function of the value it is handed
Raw == {0, 1}

\* random.uniform(0.15 - 0.05, 0.15 + 0.05): always positive
uniform(r) == 1 + r
\* random.expovariate(1.0 / mean): any value >= 0
expovariate(r) == r * MaxDelay
\* random.gauss(mean, stdev): any value, negative ones included
gauss(r) == 2 * r - 1
\* random.random() < 0.5 chooses the quet branch
lane_of(r) == IF r = 0 THEN "quet" ELSE "queo"

ArrivalDelays == {uniform(r) : r \in Raw}
ServiceDelays == {expovariate(r) : r \in Raw}
Gauss == {gauss(r) : r \in Raw}

\* the draw passed on as it is
normal_dist_unclamped(g) == g

\* normal_dist: max(0, random.gauss(mean, stdev))
normal_dist(g) == IF g > 0 THEN g ELSE 0

URGENT == 0
NORMAL == 1

---------------------------------------------------------------------------
(* simpy.Environment: the event queue *)

\* an entry of the queue.  at is history only: the virtual time at which the
\* event was scheduled; the library keeps no such field and nothing below
\* reads it but the properties.
Event(t, at, pr, kind, j, js) ==
    [t |-> t, at |-> at, pr |-> pr, kind |-> kind, job |-> j, jobs |-> js]

\* a queue order under which a new event overtakes the queued events of its
\* own time and urgency
Before_overtaken(a, b) == a.t < b.t \/ (a.t = b.t /\ a.pr < b.pr)

\* an event fires before another when its (time, urgency) is smaller; among
\* equal keys the one scheduled first fires first
Before(a, b) == a.t < b.t \/ (a.t = b.t /\ a.pr <= b.pr)

\* env.schedule: the position of a new event is after every queued event
\* whose key is not larger
schedule(q, e) ==
    LET k == Cardinality({i \in 1..Len(q) : Before(q[i], e)})
    IN  SubSeq(q, 1, k) \o <<e>> \o SubSeq(q, k + 1, Len(q))

timeout(q, t, delay, kind, j) == schedule(q, Event(t + delay, t, NORMAL, kind, j, <<>>))
succeed(q, t, kind, j, js) == schedule(q, Event(t, t, NORMAL, kind, j, js))
process(q, t, kind, j) == schedule(q, Event(t, t, URGENT, kind, j, <<>>))

---------------------------------------------------------------------------
(* simpy.PriorityResource *)

\* a PriorityRequest of job j.  nr is history only: the number of the
\* request() call on this resource; the library keeps no such field and
\* nothing below reads it but the properties.
Req(j, p, t, nr) == [job |-> j, priority |-> p, time |-> t, nr |-> nr]

\* PriorityRequest.key = (priority, time, ...): smaller keys are served first
KeyLE(a, b) == a.priority < b.priority \/ (a.priority = b.priority /\ a.time <= b.time)

\* a queue that puts the newest request of a priority before the older ones
SortedQueue_append_unstable(queue, r) ==
    LET k == Cardinality({i \in 1..Len(queue) : queue[i].priority < r.priority})
    IN  SubSeq(queue, 1, k) \o <<r>> \o SubSeq(queue, k + 1, Len(queue))

\* SortedQueue.append: append, then a stable sort by key
SortedQueue_append(queue, r) ==
    LET k == Cardinality({i \in 1..Len(queue) : KeyLE(queue[i], r)})
    IN  SubSeq(queue, 1, k) \o <<r>> \o SubSeq(queue, k + 1, Len(queue))

\* a _do_put that grants a unit whatever is in use
do_put_unchecked(res, capacity) == TRUE

\* Resource._do_put: the request gets a unit only while fewer than capacity
\* units are in use
do_put(res, capacity) == Len(res.users) < capacity

\* BaseResource._trigger_put with Resource._do_put: the head of the put queue
\* is served if a unit is free; the loop stops after the first request
\* (_do_put returns None).  Result: the resource and the job granted (0: none).
trigger_put(res, capacity) ==
    IF res.queue # <<>> /\ do_put(res, capacity)
    THEN [res |-> [res EXCEPT !.users = Append(@, Head(res.queue).job),
                              !.queue = Tail(@)],
          granted |-> Head(res.queue).job]
    ELSE [res |-> res, granted |-> 0]

\* Resource._do_get for a Release: the request leaves the users at once
do_get(res, j) ==
    [res EXCEPT !.users = SelectSeq(res.users, LAMBDA u : u # j)]

count(res) == Len(res.users)


---------------------------------------------------------------------------
(* StatisticsCollector *)

\* a record_queue_length that appends every sample
record_queue_length_always(queue_list, length, t) == Append(queue_list, <<t, length>>)

\* StatisticsCollector.record_queue_length: a sample is appended only when
\* the list is empty or its last value differs
record_queue_length(queue_list, length, t) ==
    IF queue_list = <<>> \/ queue_list[Len(queue_list)][2] # length
    THEN Append(queue_list, <<t, length>>)
    ELSE queue_list

\* is_cam_queue=True divides a positive length by BATCH_SIZE: with
\* BATCH_SIZE = 0 that raises ZeroDivisionError
blocks_raises(length, bs) == length > 0 /\ bs = 0

\* the lossy variants' is_cam_queue=True: lengths are counted in blocks,
\* math.ceil(length / BATCH_SIZE) if length > 0 else 0
blocks(length, bs) ==
    IF length > 0 /\ bs > 0 THEN (length + bs - 1) \div bs ELSE 0

RECURSIVE area_upto(_, _)
\* the loop of calculate_time_weighted_average over i in range(n):
\* total_area += value * (time_end - time_start)
area_upto(data_list, n) ==
    IF n = 0 THEN 0
    ELSE area_upto(data_list, n - 1)
         + data_list[n][2] * (data_list[n + 1][1] - data_list[n][1])

\* the area without the last value's extension to env.now
total_area_no_tail(data_list, t) == area_upto(data_list, Len(data_list) - 1)

\* the area the function accumulates: the loop, then the last value extended
\* to env.now
total_area(data_list, t) ==
    area_upto(data_list, Len(data_list) - 1)
    + data_list[Len(data_list)][2] * (t - data_list[Len(data_list)][1])

\* StatisticsCollector.calculate_time_weighted_average at env.now = t.  The
\* float result is kept as the fraction num / den (0 is 0 / 1).
calculate_time_weighted_average(data_list, t) ==
    IF Len(data_list) <= 1 THEN [num |-> 0, den |-> 1]
    ELSE IF t > 0 THEN [num |-> total_area(data_list, t), den |-> t]
    ELSE [num |-> 0, den |-> 1]

\* StatisticsCollector.__init__
StatsInit ==
    [jobs_generated |-> 0, jobs_terminated |-> 0, priority_1_count |-> 0,
     mac_wait_times |-> <<>>, queo_wait_times |-> <<>>, quet_wait_times |-> <<>>,
     cam_wait_times |-> <<>>, system_times |-> <<>>,
     queue_mac_length |-> << <<0, 0>> >>,
     queue_queo_length |-> << <<0, 0>> >>,
     queue_quet_length |-> << <<0, 0>> >>,
     queo_wait_list |-> <<>>, quet_wait_list |-> <<>>,
     mac_usage |-> << <<0, 0>> >>, cam_usage |-> << <<0, 0>> >>,
     assembled_batches |-> 0]

\* the lane's queue-length series: queue_cam_o_length / queue_cam_t_length in
\* the statistics variant, queue_queo_length / queue_quet_length in the graph
\* variant
lane_series(L) == IF L = "queo" THEN "queue_queo_length" ELSE "queue_quet_length"
lane_wait_list(L) == IF L = "queo" THEN "queo_wait_list" ELSE "quet_wait_list"
lane_wait_times(L) == IF L = "queo" THEN "queo_wait_times" ELSE "quet_wait_times"

\* StatisticsCollector.monitor_utilization: one pass of the loop body
monitor_utilization(st, m, c, t) ==
    [st EXCEPT !.mac_usage = record_queue_length(@, count(m), t),
               !.cam_usage = record_queue_length(@, count(c), t)]
\* report of the statistics variant, "1. TOTAL ELEMENTS REMAINING IN SYSTEM":
\* the two resources' queues and units in use and the two gates' batch_count
total_remaining(m, c, asm) ==
    Len(m.queue) + count(m) + Len(c.queue) + count(c)
        + asm["queo"].batch_count + asm["quet"].batch_count

\* report(): the final samples it records before it computes the averages.
\* The statistics variant records len(mac.queue) and, in the queo series,
\* len(cam.queue); the lossy variants record len(mac.queue) and the two wait
\* lists in blocks of bs.
report_samples(st, v, m, c, t, bs) ==
    IF v = "statistics"
    THEN [st EXCEPT !.queue_mac_length = record_queue_length(@, Len(m.queue), t),
                    !.queue_queo_length = record_queue_length(@, Len(c.queue), t)]
    ELSE [st EXCEPT !.queue_mac_length = record_queue_length(@, Len(m.queue), t),
                    !.queue_queo_length =
                        record_queue_length(@, blocks(Len(st.queo_wait_list), bs), t),
                    !.queue_quet_length =
                        record_queue_length(@, blocks(Len(st.quet_wait_list), bs), t)]

NotComputed == [num |-> 0, den |-> 1]

NothingPrinted ==
    [avg_mac_queue |-> NotComputed, avg_queo_queue |-> NotComputed,
     avg_quet_queue |-> NotComputed, avg_mac_in_use |-> NotComputed,
     avg_cam_in_use |-> NotComputed]

\* report(): the time-weighted averages.  The statistics variant computes
\* avg_mac_queue and avg_cam_queue (of the queo series, kept here in
\* avg_queo_queue); the works variant computes the three queue averages,
\* the graph variant all five.
report_averages(st, v, t) ==
    IF v = "statistics"
    THEN [NothingPrinted EXCEPT
              !.avg_mac_queue = calculate_time_weighted_average(st.queue_mac_length, t),
              !.avg_queo_queue = calculate_time_weighted_average(st.queue_queo_length, t)]
    ELSE IF v = "works"
    THEN [NothingPrinted EXCEPT
              !.avg_mac_queue = calculate_time_weighted_average(st.queue_mac_length, t),
              !.avg_queo_queue = calculate_time_weighted_average(st.queue_queo_length, t),
              !.avg_quet_queue = calculate_time_weighted_average(st.queue_quet_length, t)]
    ELSE [avg_mac_queue |-> calculate_time_weighted_average(st.queue_mac_length, t),
          avg_queo_queue |-> calculate_time_weighted_average(st.queue_queo_length, t),
          avg_quet_queue |-> calculate_time_weighted_average(st.queue_quet_length, t),
          avg_mac_in_use |-> calculate_time_weighted_average(st.mac_usage, t),
          avg_cam_in_use |-> calculate_time_weighted_average(st.cam_usage, t)]

---------------------------------------------------------------------------
(* BatchAssembler (statistics variant).  release_event is the list of the   *)
(* processes waiting for the assembler's current release event.            *)

\* BatchAssembler.__init__
BatchAssemblerInit(bs) ==
    [batch_size |-> bs, batch_count |-> 0, waiting_jobs |-> <<>>, release_event |-> <<>>]

\* an assemble that releases one arrival late (> instead of >=)
assemble_late(a, j) ==
    LET n == a.batch_count + 1
        w == Append(a.waiting_jobs, j)
    IN  IF n > a.batch_size
        THEN [asm |-> [a EXCEPT !.batch_count = 0, !.waiting_jobs = w,
                                !.release_event = <<>>],
              fired |-> TRUE, released |-> a.release_event]
        ELSE [asm |-> [a EXCEPT !.batch_count = n, !.waiting_jobs = w],
              fired |-> FALSE, released |-> <<>>]

\* BatchAssembler.assemble: the new fields, whether the old release event
\* was triggered and the processes that waited for it.  The event returned
\* to the caller is the assembler's release_event AFTER the reset.
assemble(a, j) ==
    LET n == a.batch_count + 1
        w == Append(a.waiting_jobs, j)
    IN  IF n >= a.batch_size
        THEN [asm |-> [a EXCEPT !.batch_count = 0, !.waiting_jobs = w,
                                !.release_event = <<>>],
              fired |-> TRUE, released |-> a.release_event]
        ELSE [asm |-> [a EXCEPT !.batch_count = n, !.waiting_jobs = w],
              fired |-> FALSE, released |-> <<>>]

---------------------------------------------------------------------------
(* The state the handlers work on, as one record *)

World ==
    [variant |-> variant, batch_size |-> batch_size, evq |-> evq, job_id |-> job_id, proc |-> proc,
     mac |-> mac, cam |-> cam, assembler |-> assembler,
     ASSEMBLEQUEO |-> ASSEMBLEQUEO, ASSEMBLEQUET |-> ASSEMBLEQUET, stats |-> stats]

Commit(w) ==
    /\ evq' = w.evq
    /\ job_id' = w.job_id
    /\ proc' = w.proc
    /\ mac' = w.mac
    /\ cam' = w.cam
    /\ assembler' = w.assembler
    /\ ASSEMBLEQUEO' = w.ASSEMBLEQUEO
    /\ ASSEMBLEQUET' = w.ASSEMBLEQUET
    /\ stats' = w.stats

capacity(r) == IF r = "mac" THEN MAC_CAPACITY ELSE CAM_CAPACITY
granted_kind(r) == IF r = "mac" THEN "mac_granted" ELSE "cam_granted"
released_kind(r) == IF r = "mac" THEN "mac_released" ELSE "cam_released"

\* after _trigger_put: the granted request's event is succeeded
grant(w, r, tp, t) ==
    IF tp.granted # 0
    THEN [w EXCEPT ![r] = tp.res,
                   !.evq = succeed(@, t, granted_kind(r), tp.granted, <<>>)]
    ELSE [w EXCEPT ![r] = tp.res]

\* resource.request(priority=p) by job j: Put.__init__ appends the request
\* to the put queue and calls _trigger_put.  The job keeps the request
\* object (req / req_cam), whose time attribute is the time of the call.
request(w, r, j, p, t) ==
    LET res == [w[r] EXCEPT !.queue = SortedQueue_append(@, Req(j, p, t, w[r].requests + 1)),
                            !.requests = @ + 1]
    IN  grant([w EXCEPT !.proc[j].req_time = t], r, trigger_put(res, capacity(r)), t)

\* leaving the with block: resource.release(req).  The request leaves the
\* users now; the Release event is processed later in the same instant.
release(w, r, j, t) ==
    [w EXCEPT ![r] = do_get(@, j),
              !.evq = succeed(@, t, released_kind(r), 0, <<>>)]

\* the Release event is processed: its callback is _trigger_put
released(w, r, t) == grant(w, r, trigger_put(w[r], capacity(r)), t)

---------------------------------------------------------------------------
(* job_process, one operator per stretch of code between two yields *)

\* job_process up to "yield req": arrival, the queue sample taken BEFORE the
\* request is made, and mac.request(priority=priority)
job_arrive(w, j, t) ==
    LET w1 == [w EXCEPT !.proc[j].arrival_time = t,
                        !.proc[j].mac_wait_start = t,
                        !.proc[j].pc = "mac_request",
                        !.stats.queue_mac_length =
                            record_queue_length(@, Len(w.mac.queue), t)]
    IN  request(w1, "mac", j, w.proc[j].priority, t)

\* a grant that records no wait sample
mac_enter_unrecorded(w, j, t, service) ==
    [w EXCEPT !.stats.queue_mac_length = record_queue_length(@, Len(w.mac.queue), t),
              !.proc[j].pc = "mac_service",
              !.evq = timeout(@, t, service, "service_done", j)]

\* after "yield req": the wait sample, the queue sample, and the service
\* timeout
mac_enter(w, j, t, service) ==
    [w EXCEPT !.stats.mac_wait_times = Append(@, t - w.proc[j].mac_wait_start),
              !.stats.queue_mac_length = record_queue_length(@, Len(w.mac.queue), t),
              !.proc[j].pc = "mac_service",
              !.evq = timeout(@, t, service, "service_done", j)]

\* the error check succeeded (random.random() >= 0.99): the correction timeout
mac_error(w, j, t, delay) ==
    [w EXCEPT !.proc[j].pc = "mac_error",
              !.evq = timeout(@, t, delay, "error_done", j)]

\* statistics variant, "yield quet_assembler.assemble(job_id)": assemble is
\* called, a full batch triggers the old release event, and the process
\* waits for the event assemble returned
gate_assemble(w, j, L, t) ==
    LET r == assemble(w.assembler[L], j)
        q == IF r.fired THEN succeed(w.evq, t, "gate_released", 0, r.released)
             ELSE w.evq
    IN  [w EXCEPT !.assembler[L] = [r.asm EXCEPT !.release_event = Append(@, j)],
                  !.evq = q,
                  !.proc[j].pc = "assemble"]

\* statistics variant, after the assemble yield: the batch counter, the lane's
\* queue sample and cam.request(priority=0)
gate_resume(w, j, t) ==
    LET L == w.proc[j].lane
        w1 == [w EXCEPT !.stats.assembled_batches =
                            IF w.assembler[L].batch_count = 0 THEN @ + 1 ELSE @,
                        !.stats[lane_series(L)] =
                            record_queue_length(@, Len(w.cam.queue), t),
                        !.proc[j].pc = "cam_request"]
    IN  request(w1, "cam", j, 0, t)

RECURSIVE gate_resume_all(_, _, _)
\* the callbacks of a processed release event, in the order the processes
\* started to wait
gate_resume_all(w, js, t) ==
    IF js = <<>> THEN w
    ELSE gate_resume_all(gate_resume(w, Head(js), t), Tail(js), t)

lane_counter(w, L) == IF L = "queo" THEN w.ASSEMBLEQUEO ELSE w.ASSEMBLEQUET

\* one counter shared by the two lanes
set_lane_counter_shared(w, L, n) == [w EXCEPT !.ASSEMBLEQUEO = n]

set_lane_counter(w, L, n) ==
    IF L = "queo" THEN [w EXCEPT !.ASSEMBLEQUEO = n] ELSE [w EXCEPT !.ASSEMBLEQUET = n]

\* the literal 200 the works variant compares its lane counters with,
\* scaled as the constant BATCH_SIZE = 200 is
ASSEMBLE_LITERAL == BATCH_SIZE

\* the value a lane counter must reach for the job to go on: the constant
\* BATCH_SIZE in the graph variant, the literal in the works variant
threshold(w) == IF w.variant = "works" THEN ASSEMBLE_LITERAL ELSE w.batch_size

\* a lossy gate whose counter still works but that discards nobody: every
\* arrival joins the wait list and requests cam
lossy_gate_no_discard(w, j, L, t) ==
    LET n == lane_counter(w, L) + 1
        w1 == set_lane_counter(w, L, IF n = threshold(w) THEN 0 ELSE n)
        wl == Append(w1.stats[lane_wait_list(L)], j)
        w2 == [w1 EXCEPT !.stats[lane_wait_list(L)] = wl,
                         !.stats[lane_series(L)] =
                             record_queue_length(@, blocks(Len(wl), w.batch_size), t),
                         !.proc[j].pc = "cam_request"]
    IN  request(w2, "cam", j, 0, t)

\* lossy variants: the lane counter; only the job that makes it reach the
\* threshold resets it, joins the lane's wait list and requests cam, every
\* other job falls off the end of job_process.  The queue sample of the job
\* that goes on raises when BATCH_SIZE is 0: the process ends with the
\* exception.
lossy_gate(w, j, L, t) ==
    LET n == lane_counter(w, L) + 1
    IN  IF n = threshold(w)
        THEN LET w1 == set_lane_counter(w, L, 0)
                 wl == Append(w1.stats[lane_wait_list(L)], j)
                 w2 == [w1 EXCEPT !.stats[lane_wait_list(L)] = wl]
                 w3 == [w2 EXCEPT !.stats[lane_series(L)] =
                                      record_queue_length(@, blocks(Len(wl), w.batch_size), t),
                                  !.proc[j].pc = "cam_request"]
             IN  IF blocks_raises(Len(wl), w.batch_size)
                 THEN [w2 EXCEPT !.proc[j].pc = "raised"]
                 ELSE request(w3, "cam", j, 0, t)
        ELSE [set_lane_counter(w, L, n) EXCEPT !.proc[j].pc = "lost"]

\* a job that takes its stage-A unit along to the gate
mac_leave_holding(w, j, L, t) ==
    LET w2 == [w EXCEPT !.proc[j].cam_wait_start = t, !.proc[j].lane = L]
    IN  IF w.variant = "statistics" THEN gate_assemble(w2, j, L, t)
        ELSE lossy_gate(w2, j, L, t)

\* leaving the mac with block, then the CAM section up to its first yield
mac_leave(w, j, L, t) ==
    LET w1 == release(w, "mac", j, t)
        w2 == [w1 EXCEPT !.proc[j].cam_wait_start = t, !.proc[j].lane = L]
    IN  IF w.variant = "statistics" THEN gate_assemble(w2, j, L, t)
        ELSE lossy_gate(w2, j, L, t)

Remove(seq, x) == SelectSeq(seq, LAMBDA y : y # x)

\* a job that stays in its lane's wait list after its grant
cam_enter_listed(w, j, t, delay) ==
    LET L == w.proc[j].lane
        w1 == [w EXCEPT !.proc[j].pc = "cam_service",
                        !.evq = timeout(@, t, delay, "cam_done", j),
                        !.stats.cam_wait_times = Append(@, t - w.proc[j].cam_wait_start)]
    IN  IF w.variant = "statistics"
        THEN [w1 EXCEPT !.stats[lane_series(L)] =
                            record_queue_length(@, Len(w.cam.queue), t)]
        ELSE LET wl == w.stats[lane_wait_list(L)]
             IN  [w1 EXCEPT !.stats[lane_wait_times(L)] =
                                Append(@, t - w.proc[j].cam_wait_start),
                            !.stats[lane_series(L)] =
                                record_queue_length(@, blocks(Len(wl), w.batch_size), t)]

\* after "yield req_cam": the wait samples, the lane's queue sample and the
\* cam timeout
cam_enter(w, j, t, delay) ==
    LET L == w.proc[j].lane
        w1 == [w EXCEPT !.proc[j].pc = "cam_service",
                        !.evq = timeout(@, t, delay, "cam_done", j),
                        !.stats.cam_wait_times = Append(@, t - w.proc[j].cam_wait_start)]
    IN  IF w.variant = "statistics"
        THEN [w1 EXCEPT !.stats[lane_series(L)] =
                            record_queue_length(@, Len(w.cam.queue), t)]
        ELSE LET wl == Remove(w.stats[lane_wait_list(L)], j)
             IN  [w1 EXCEPT !.stats[lane_wait_times(L)] =
                                Append(@, t - w.proc[j].cam_wait_start),
                            !.stats[lane_wait_list(L)] = wl,
                            !.stats[lane_series(L)] =
                                record_queue_length(@, blocks(Len(wl), w.batch_size), t)]

\* a job that leaves stage B without being counted
cam_leave_uncounted(w, j, t) ==
    LET w1 == release(w, "cam", j, t)
    IN  [w1 EXCEPT !.proc[j].pc = "terminated",
                   !.stats.system_times = Append(@, t - w.proc[j].arrival_time)]

\* leaving the cam with block, then TERMINATE
cam_leave(w, j, t) ==
    LET w1 == release(w, "cam", j, t)
    IN  [w1 EXCEPT !.proc[j].pc = "terminated",
                   !.stats.jobs_terminated = @ + 1,
                   !.stats.system_times = Append(@, t - w.proc[j].arrival_time)]

---------------------------------------------------------------------------
(* job_generator *)

\* a generator that lets the jobs in service at stage A hold it back: its
\* timeout grows with the number of units in use
generator_next_held_back(w, t, delay) ==
    IF w.job_id < max_jobs
    THEN [w EXCEPT !.job_id = @ + 1,
                   !.stats.jobs_generated = @ + 1,
                   !.evq = timeout(@, t, delay + count(w.mac), "generate", 0)]
    ELSE w

\* the top of the while loop up to its yield: the job is counted, then the
\* inter-arrival timeout
generator_next(w, t, delay) ==
    IF w.job_id < max_jobs
    THEN [w EXCEPT !.job_id = @ + 1,
                   !.stats.jobs_generated = @ + 1,
                   !.evq = timeout(@, t, delay, "generate", 0)]
    ELSE w

\* after the yield: the priority draw and env.process(job_process(...))
generator_spawn(w, t, p) ==
    [w EXCEPT !.stats.priority_1_count = IF p = 1 THEN @ + 1 ELSE @,
              !.proc[w.job_id].priority = p,
              !.proc[w.job_id].pc = "start",
              !.evq = process(@, t, "job_start", w.job_id)]

---------------------------------------------------------------------------
(* run_simulation *)

\* simpy.PriorityResource(env, capacity=...)
ResourceInit == [users |-> <<>>, queue |-> <<>>, requests |-> 0]

ProcInit ==
    [pc |-> "unborn", priority |-> 0, arrival_time |-> 0, mac_wait_start |-> 0,
     cam_wait_start |-> 0, lane |-> "none", req_time |-> 0]

\* the processes run_simulation starts before env.run: the monitor only in
\* the graph variant, before the generator
StartQueue(v) ==
    IF v = "graph"
    THEN process(process(<<>>, 0, "monitor", 0), 0, "generator_start", 0)
    ELSE process(<<>>, 0, "generator_start", 0)

NoCounters == [jobs_generated |-> 0, jobs_terminated |-> 0, priority_1_count |-> 0]

\* the module as imported (the counters ASSEMBLEQUEO and ASSEMBLEQUET are 0)
\* and run_simulation up to env.run: the resources, the assemblers, the
\* collector and the processes started
Started ==
    /\ phase = "running"
    /\ now = 0
    /\ evq = StartQueue(variant)
    /\ job_id = 0
    /\ proc = [j \in Jobs |-> ProcInit]
    /\ mac = ResourceInit
    /\ cam = ResourceInit
    /\ assembler = [L \in Lanes |-> BatchAssemblerInit(batch_size)]
    /\ ASSEMBLEQUEO = 0
    /\ ASSEMBLEQUET = 0
    /\ stats = StatsInit
    /\ printed = NothingPrinted
    /\ tape = <<>>
    /\ pos = 0
    /\ first = NoCounters

\* the program as written: BATCH_SIZE as the module sets it, one invocation
\* run_simulation(SIMULATION_TIME)
Init ==
    /\ variant \in Variants
    /\ batch_size = BATCH_SIZE
    /\ until = SIMULATION_TIME
    /\ run = 0
    /\ Started

\* a process ended with an exception: env.run re-raises it
Aborted == \E j \in Jobs : proc[j].pc = "raised"

\* env.run(until=until_time) processes the next event while it is due
\* before the horizon
Fires(kind) ==
    /\ phase = "running"
    /\ ~Aborted
    /\ evq # <<>>
    /\ Head(evq).t < until
    /\ Head(evq).kind = kind

\* env.step: the event leaves the queue and the clock moves to its time
Popped == [World EXCEPT !.evq = Tail(evq)]

Step(w) ==
    /\ now' = Head(evq).t
    /\ Commit(w)
    /\ UNCHANGED <<variant, batch_size, until, phase, printed, run>>

\* the calls this step makes to the random module return the values ds: the
\* first of two seeded invocations records them, the second gets the values
\* the first got, call by call, and fresh ones once it has made more calls
Draw(ds) ==
    /\ run = 2 => \A i \in 1..Len(ds) : pos + i <= Len(tape) => ds[i] = tape[pos + i]
    /\ tape' = IF run = 1 THEN tape \o ds ELSE tape
    /\ pos' = IF run = 2 THEN pos + Len(ds) ELSE pos
    /\ UNCHANGED first

ev == Head(evq)

GeneratorStart ==
    /\ Fires("generator_start")
    /\ \E d \in Raw :
          /\ Draw(<<d>>)
          /\ Step(generator_next(Popped, ev.t, uniform(d)))

\* the priority draw, and the inter-arrival draw if the loop goes round again
Generate ==
    /\ Fires("generate")
    /\ \E p \in Raw, d \in Raw :
          /\ Draw(IF job_id < max_jobs THEN <<p, d>> ELSE <<p>>)
          /\ Step(generator_next(generator_spawn(Popped, ev.t, p), ev.t, uniform(d)))

JobStart ==
    /\ Fires("job_start")
    /\ Draw(<<>>)
    /\ Step(job_arrive(Popped, ev.job, ev.t))

MacGranted ==
    /\ Fires("mac_granted")
    /\ \E d \in Raw :
          /\ Draw(<<d>>)
          /\ Step(mac_enter(Popped, ev.job, ev.t, expovariate(d)))

\* the service timeout: the error check, then either the correction timeout
\* or the end of the with block and the lane draw
ServiceDone ==
    /\ Fires("service_done")
    /\ \/ \E g \in Raw :
             /\ Draw(<<1, g>>)
             /\ Step(mac_error(Popped, ev.job, ev.t, normal_dist(gauss(g))))
       \/ \E l \in Raw :
             /\ Draw(<<0, l>>)
             /\ Step(mac_leave(Popped, ev.job, lane_of(l), ev.t))

ErrorDone ==
    /\ Fires("error_done")
    /\ \E l \in Raw :
          /\ Draw(<<l>>)
          /\ Step(mac_leave(Popped, ev.job, lane_of(l), ev.t))

MacReleased ==
    /\ Fires("mac_released")
    /\ Draw(<<>>)
    /\ Step(released(Popped, "mac", ev.t))

GateReleased ==
    /\ Fires("gate_released")
    /\ Draw(<<>>)
    /\ Step(gate_resume_all(Popped, ev.jobs, ev.t))

CamGranted ==
    /\ Fires("cam_granted")
    /\ \E g \in Raw :
          /\ Draw(<<g>>)
          /\ Step(cam_enter(Popped, ev.job, ev.t, normal_dist(gauss(g))))

CamDone ==
    /\ Fires("cam_done")
    /\ Draw(<<>>)
    /\ Step(cam_leave(Popped, ev.job, ev.t))

CamReleased ==
    /\ Fires("cam_released")
    /\ Draw(<<>>)
    /\ Step(released(Popped, "cam", ev.t))

\* monitor_utilization: the samples, then "yield self.env.timeout(1)"
Monitor ==
    /\ Fires("monitor")
    /\ Draw(<<>>)
    /\ Step([Popped EXCEPT !.stats = monitor_utilization(@, mac, cam, ev.t),
                           !.evq = timeout(@, ev.t, 1, "monitor", 0)])

\* env.run returns: no event is due before the horizon, the clock is set to
\* it; or env.run raises the exception a process ended with
RunEnd ==
    /\ phase = "running"
    /\ IF Aborted \/ evq = <<>> THEN TRUE ELSE Head(evq).t >= until
    /\ phase' = IF Aborted THEN "run_failed" ELSE "finished"
    /\ now' = IF Aborted THEN now ELSE until
    /\ UNCHANGED <<variant, batch_size, until, evq, job_id, proc, mac, cam,
                   assembler, ASSEMBLEQUEO, ASSEMBLEQUET, stats, printed, run,
                   tape, pos, first>>

\* the works variant's report() divides by the lengths of the per-lane
\* wait-time lists without a guard: ZeroDivisionError if one is empty
report_raises(st, v) ==
    v = "works" /\ (st.queo_wait_times = <<>> \/ st.quet_wait_times = <<>>)

\* stats.report(), called once by run_simulation after env.run.  The works
\* variant records its final samples before the division that may raise and
\* prints its averages after it.
Report ==
    /\ phase = "finished"
    /\ phase' = IF report_raises(stats, variant) THEN "report_failed" ELSE "reported"
    /\ stats' = report_samples(stats, variant, mac, cam, now, batch_size)
    /\ printed' = IF report_raises(stats, variant) THEN printed
                  ELSE report_averages(stats', variant, now)
    /\ UNCHANGED <<variant, batch_size, until, now, evq, job_id, proc, mac, cam,
                   assembler, ASSEMBLEQUEO, ASSEMBLEQUET, run, tape, pos, first>>

Next ==
    \/ GeneratorStart
    \/ Generate
    \/ JobStart
    \/ MacGranted
    \/ ServiceDone
    \/ ErrorDone
    \/ MacReleased
    \/ GateReleased
    \/ CamGranted
    \/ CamDone
    \/ CamReleased
    \/ Monitor
    \/ RunEnd
    \/ Report

Spec == Init /\ [][Next]_vars

\* two successive invocations in one process, random.seed(s) before each:
\* the first one records what the generator returns
InitTwice ==
    /\ variant \in Variants
    /\ batch_size = BATCH_SIZE
    /\ until = SIMULATION_TIME
    /\ run = 1
    /\ Started

\* random.seed(s); run_simulation(until) once more, after the first
\* invocation has returned: run_simulation builds a new environment, new
\* resources, assemblers and collector; the module's counters ASSEMBLEQUEO
\* and ASSEMBLEQUET are not assigned by it and keep their values
RunSimulationAgain ==
    /\ run = 1
    /\ phase = "reported"
    /\ run' = 2
    /\ pos' = 0
    /\ first' = [jobs_generated |-> stats.jobs_generated,
                 jobs_terminated |-> stats.jobs_terminated,
                 priority_1_count |-> stats.priority_1_count]
    /\ phase' = "running"
    /\ now' = 0
    /\ evq' = StartQueue(variant)
    /\ job_id' = 0
    /\ proc' = [j \in Jobs |-> ProcInit]
    /\ mac' = ResourceInit
    /\ cam' = ResourceInit
    /\ assembler' = [L \in Lanes |-> BatchAssemblerInit(batch_size)]
    /\ stats' = StatsInit
    /\ printed' = NothingPrinted
    /\ UNCHANGED <<variant, batch_size, until, ASSEMBLEQUEO, ASSEMBLEQUET, tape>>

NextTwice ==
    \/ Next
    \/ RunSimulationAgain

SpecTwice == InitTwice /\ [][NextTwice]_vars

\* the program with the module constant BATCH_SIZE as it is or edited to a
\* degenerate value before the run: 1 (a batch of one) or 0 (no valid batch)
ConfiguredSizes == {0, 1, BATCH_SIZE}

InitConfigured ==
    /\ variant \in Variants
    /\ batch_size \in ConfiguredSizes
    /\ until = SIMULATION_TIME
    /\ run = 0
    /\ Started

SpecConfigured == InitConfigured /\ [][Next]_vars

\* the program with a valid batch size: BATCH_SIZE as it is or a batch of one,
\* with which every arrival at a lossy gate of the graph variant passes
BatchSizes == {1, BATCH_SIZE}

InitBatches ==
    /\ variant \in Variants
    /\ batch_size \in BatchSizes
    /\ until = SIMULATION_TIME
    /\ run = 0
    /\ Started

SpecBatches == InitBatches /\ [][Next]_vars

\* a horizon no timed delay of any job can reach: every job is started by
\* max_jobs inter-arrival delays, and the services, corrections and stage-B
\* delays of all jobs, one after the other, take no longer than the rest
Unbounded == max_jobs * (uniform(1) + expovariate(1) + gauss(1) + gauss(1)) + 1

InitUnbounded ==
    /\ variant \in Variants
    /\ batch_size = BATCH_SIZE
    /\ until = Unbounded
    /\ run = 0
    /\ Started

\* env.run processes the next event whenever one is due, and run_simulation
\* goes on to report when env.run returns: no step of the program waits for
\* anything but the scheduler
SpecUnbounded == InitUnbounded /\ [][Next]_vars /\ WF_vars(Next)

---------------------------------------------------------------------------
(* Properties *)

Waiting(res, j) == \E i \in 1..Len(res.queue) : res.queue[i].job = j
Holding(res, j) == \E i \in 1..Len(res.users) : res.users[i] = j
Entry(res, j) == res.queue[CHOOSE i \in 1..Len(res.queue) : res.queue[i].job = j]

\* y is granted by this step while x keeps waiting
GrantedPast(res, resN, x, y) ==
    /\ Waiting(res, x) /\ Waiting(res, y)
    /\ Holding(resN, y) /\ Waiting(resN, x)

\* C1: for both priority resources, in every reachable state
\* 0 <= in_use <= capacity.
C1_CapacityInvariant ==
    /\ 0 <= count(mac) /\ count(mac) <= MAC_CAPACITY
    /\ 0 <= count(cam) /\ count(cam) <= CAM_CAPACITY

\* stage B is full while a job waits for it, after a job had to wait for a
\* full stage A
C1_Witness ==
    /\ count(cam) = CAM_CAPACITY /\ cam.queue # <<>>
    /\ \E i \in 1..Len(stats.mac_wait_times) : stats.mac_wait_times[i] > 0

\* C2 (as claimed): while a priority-1 job x and a priority-0 job y both wait
\* for stage A and x requested after y, no grant goes to y before x.
C2_HigherNumberFirst ==
    [][\A x, y \in Jobs :
          (/\ Waiting(mac, x) /\ Waiting(mac, y)
           /\ Entry(mac, x).priority = 1 /\ Entry(mac, y).priority = 0
           /\ Entry(mac, x).nr > Entry(mac, y).nr)
          => ~GrantedPast(mac, mac', x, y)]_vars

\* FIFO within a priority on resource res: of two waiting requests of equal
\* priority, the later one is not granted while the earlier one waits
Fifo(res, resN) ==
    \A x, y \in Jobs :
        (/\ Waiting(res, x) /\ Waiting(res, y)
         /\ Entry(res, x).priority = Entry(res, y).priority
         /\ Entry(res, x).nr < Entry(res, y).nr)
        => ~GrantedPast(res, resN, x, y)

Arrivals(L) == Cardinality({j \in Jobs : proc[j].lane = L})

\* the job whose arrival completed the batch that job j is a member of, 0
\* while that batch is incomplete (statistics variant: waiting_jobs is the
\* lane's arrival order)
Trigger(j) ==
    LET wj == assembler[proc[j].lane].waiting_jobs
        k == CHOOSE i \in 1..Len(wj) : wj[i] = j
        last == ((k + BATCH_SIZE - 1) \div BATCH_SIZE) * BATCH_SIZE
    IN  IF last <= Len(wj) THEN wj[last] ELSE 0

\* a triggered release event that has not been processed yet
ReleasePending == \E i \in 1..Len(evq) : evq[i].kind = "gate_released"

\* C4 (as claimed): once the arrival that completes a batch has occurred
\* and the release it triggered has been processed, every job of that batch,
\* the triggering one included, has resumed (so all of them resume at the
\* instant of the triggering arrival).
C4_AllResumeAtTrigger ==
    variant = "statistics" =>
        \A j \in Jobs :
            (/\ proc[j].lane # "none"
             /\ Trigger(j) # 0
             /\ ~ReleasePending)
            => proc[j].pc # "assemble"

\* C5 (as claimed): each batch release increases assembled_batches by
\* exactly 1, however many jobs resume from it.
C5_OneIncrementPerRelease ==
    [][Fires("gate_released")
          => stats'.assembled_batches = stats.assembled_batches + 1]_vars

LaneCounter(L) == IF L = "queo" THEN ASSEMBLEQUEO ELSE ASSEMBLEQUET

\* job j enters / leaves job_process at the lossy gate in this step
Routed(j) == proc[j].lane = "none" /\ proc'[j].lane # "none"

\* C6: lossy gate: only the arrival that makes the lane counter reach the
\* threshold goes on to stage B, and it requests stage B at its own arrival
\* instant; every other arrival leaves without ever requesting stage B and
\* without adding to jobs_terminated.
C6_LossyStep ==
    variant # "statistics" =>
        \A j \in Jobs :
            Routed(j) =>
                IF LaneCounter(proc'[j].lane) + 1 = BATCH_SIZE
                THEN /\ proc'[j].pc = "cam_request"
                     /\ Waiting(cam', j) \/ Holding(cam', j)
                     /\ proc'[j].cam_wait_start = now'
                ELSE /\ proc'[j].pc = "lost"
                     /\ ~Waiting(cam', j) /\ ~Holding(cam', j)
                     /\ stats'.jobs_terminated = stats.jobs_terminated

C6_LostStays ==
    variant # "statistics" =>
        \A j \in Jobs :
            proc[j].pc = "lost" =>
                /\ proc'[j].pc = "lost"
                /\ ~Waiting(cam', j) /\ ~Holding(cam', j)

C6_LossyGate == [][C6_LossyStep /\ C6_LostStays]_vars

\* in one lane a job was discarded and a later one went through stage B
C6_Witness ==
    /\ variant = "graph"
    /\ \E x, y \in Jobs :
          /\ proc[x].pc = "lost" /\ proc[y].pc = "terminated"
          /\ proc[x].lane = proc[y].lane

\* C7 (as claimed): the discarded arrivals are counted: the counters the
\* lossy gate keeps add up to the number of arrivals that did not trigger a
\* release.
C7_DiscardsCounted ==
    variant # "statistics" =>
        ASSEMBLEQUEO + ASSEMBLEQUET = Cardinality({j \in Jobs : proc[j].pc = "lost"})

\* the count of lane L's gate under the variant's policy
GateCount(L) ==
    IF variant = "statistics" THEN assembler[L].batch_count ELSE LaneCounter(L)

\* C8: for every lane gate under either policy, after each arrival
\* 0 <= count < threshold, and the arrival that reaches the threshold resets
\* the count to 0: the count is the number of arrivals modulo the threshold.
C8_GateCount ==
    \A L \in Lanes :
        /\ 0 <= GateCount(L) /\ GateCount(L) < BATCH_SIZE
        /\ GateCount(L) = Arrivals(L) % BATCH_SIZE

\* a BatchAssembler has been reset by the arrival that filled its batch
C8_Witness ==
    /\ variant = "statistics"
    /\ \E L \in Lanes : Arrivals(L) = BATCH_SIZE /\ GateCount(L) = 0

\* the value of the step function at time u: the value of the last sample
\* whose timestamp is not after u
ValueAt(data_list, u) ==
    LET i == CHOOSE k \in 1..Len(data_list) :
                 /\ data_list[k][1] <= u
                 /\ \A m \in (k + 1)..Len(data_list) : data_list[m][1] > u
    IN  data_list[i][2]

RECURSIVE StepIntegral(_, _, _)
\* the integral of the step function over [from, to), unit interval by unit
\* interval
StepIntegral(data_list, from, to) ==
    IF to <= from THEN 0
    ELSE StepIntegral(data_list, from, to - 1) + ValueAt(data_list, to - 1)

MonitoredSeries ==
    {stats.queue_mac_length, stats.queue_queo_length, stats.queue_quet_length,
     stats.mac_usage, stats.cam_usage}

\* the average is the integral over the elapsed time since the first sample
IsTimeWeightedAverage(r, data_list, t) ==
    r.num * (t - data_list[1][1]) = StepIntegral(data_list, data_list[1][1], t) * r.den

\* C9: on a series with at least two samples calculate_time_weighted_average
\* returns the integral of the step function, the last value extended to
\* now, divided by the time elapsed from the first timestamp to now; for
\* [(0,0),(2,3),(5,1)] at now = 10 that is 14 over 10.
C9_TimeWeightedAverage ==
    /\ \A s \in MonitoredSeries :
          Len(s) >= 2 =>
              /\ now > s[1][1]
              /\ IsTimeWeightedAverage(calculate_time_weighted_average(s, now), s, now)
    /\ phase = "reported" =>
          /\ Len(stats.queue_mac_length) >= 2 =>
                IsTimeWeightedAverage(printed.avg_mac_queue, stats.queue_mac_length, now)
          /\ Len(stats.queue_queo_length) >= 2 =>
                IsTimeWeightedAverage(printed.avg_queo_queue, stats.queue_queo_length, now)
    /\ calculate_time_weighted_average(<< <<0, 0>>, <<2, 3>>, <<5, 1>> >>, 10)
           = [num |-> 14, den |-> 10]

\* report() printed a non-zero average of a stage-A queue series whose last
\* value is not 0 and is extended to now
C9_Witness ==
    /\ phase = "reported"
    /\ Len(stats.queue_mac_length) >= 2
    /\ stats.queue_mac_length[Len(stats.queue_mac_length)][1] < now
    /\ stats.queue_mac_length[Len(stats.queue_mac_length)][2] > 0
    /\ printed.avg_mac_queue.num >= 1

\* C10: record_queue_length appends (now, value) only when value differs
\* from the series' last value: no monitored series has two consecutive
\* samples of equal value, timestamps never decrease, and recording the same
\* value twice in a row leaves the series as the first recording made it.
C10_RunLengthEncoded ==
    \A s \in MonitoredSeries :
        /\ \A i \in 1..(Len(s) - 1) : s[i][2] # s[i + 1][2] /\ s[i][1] <= s[i + 1][1]
        /\ record_queue_length(s, s[Len(s)][2], now) = s
        /\ \A v \in 0..max_jobs :
              LET once == record_queue_length(s, v, now)
              IN  /\ record_queue_length(once, v, now) = once
                  /\ v # s[Len(s)][2] => once = Append(s, <<now, v>>)

\* the stage-A queue series changed twice although every one of three jobs
\* offered it two samples
C10_Witness ==
    /\ Len(stats.queue_mac_length) = 3
    /\ Len(stats.mac_wait_times) = 3

\* the value of a series' last sample
LastValue(data_list) == data_list[Len(data_list)][2]

\* C11 (as claimed): report() is read-only: the call run_simulation makes
\* once env.run has returned leaves every counter, sample list and time
\* series of the collector as it found them.
C11_ReportReadOnly == [][phase = "finished" => stats' = stats]_vars

\* C12 (as claimed): report() completes without raising whatever the run
\* left in the collector, empty per-lane wait-time lists included.
C12_ReportNeverRaises == phase # "report_failed"

\* C13 (as claimed): after every stage-A enqueue (the step in which a job
\* makes its request) and every stage-A grant (the step in which the granted
\* job resumes), the last sample of queue_mac_length is the current length
\* of the stage-A wait queue.
C13_MacQueueSeriesAccurate ==
    [][(Fires("job_start") \/ Fires("mac_granted"))
          => LastValue(stats'.queue_mac_length) = Len(mac'.queue)]_vars

\* C14 (as claimed): in the variant that monitors utilization, after every
\* step that grants or releases a unit of stage A or stage B the last sample
\* of mac_usage / cam_usage is the resource's current in_use count.
C14_UsageSeriesAccurate ==
    [][variant = "graph" =>
          /\ mac'.users # mac.users => LastValue(stats'.mac_usage) = count(mac')
          /\ cam'.users # cam.users => LastValue(stats'.cam_usage) = count(cam')]_vars

\* the job processes handed to the scheduler so far
Started_jobs == {j \in Jobs : proc[j].pc # "unborn"}

\* C19 (as claimed): at every event boundary the number of job processes
\* started equals jobs_generated.
C19_ImmediateHandOff == stats.jobs_generated = Cardinality(Started_jobs)

\* the generator's pending events: its start or the timeout it sleeps in
GeneratorEvents == {i \in 1..Len(evq) : evq[i].kind \in {"generator_start", "generate"}}

\* the jobs whose process has run its first statement (arrival_time is set)
Arrived == {j \in Jobs : proc[j].pc \notin {"unborn", "start"}}

\* cap: at most max_jobs jobs are counted, and the generator has no pending
\* event once the max_jobs-th job is started; instants: a job arrives one
\* inter-arrival delay after the job before it (the first one delay after 0)
C20_Cap ==
    /\ stats.jobs_generated <= max_jobs
    /\ job_id = stats.jobs_generated
    /\ Cardinality(GeneratorEvents) = IF Cardinality(Started_jobs) = max_jobs THEN 0 ELSE 1
    /\ \A j \in Arrived :
          proc[j].arrival_time - (IF j = 1 THEN 0 ELSE proc[j - 1].arrival_time)
              \in ArrivalDelays

\* a step of the generator: it runs at the instant its timeout was set for,
\* starts the counted job then, whatever earlier jobs are doing, and sleeps
\* for exactly one inter-arrival delay if it goes round again
C20_GeneratorStep ==
    (Fires("generator_start") \/ Fires("generate")) =>
        /\ now' = ev.t
        /\ Fires("generate") =>
              /\ proc[job_id].pc = "unborn" /\ proc'[job_id].pc = "start"
              /\ \E i \in 1..Len(evq') :
                    evq'[i].kind = "job_start" /\ evq'[i].job = job_id /\ evq'[i].t = now'
        /\ job_id' # job_id =>
              \E i \in 1..Len(evq') :
                  evq'[i].kind = "generate" /\ (evq'[i].t - now') \in ArrivalDelays
        /\ job_id' = job_id =>
              /\ job_id = max_jobs
              /\ \A i \in 1..Len(evq') : evq'[i].kind # "generate"

\* C20: jobs_generated never exceeds max_jobs, the generator stops after the
\* max_jobs-th job, and each spawn happens one inter-arrival delay after the
\* spawn before it, whether or not earlier jobs are queued, in service or
\* suspended at a gate.
C20_GeneratorCapNonBlocking == []C20_Cap /\ [][C20_GeneratorStep]_vars

\* the max_jobs-th job has arrived and the generator is done while the run
\* goes on and an earlier job still waits in the stage-A queue
C20_Witness ==
    /\ phase = "running"
    /\ Cardinality(Arrived) = max_jobs
    /\ GeneratorEvents = {}
    /\ mac.queue # <<>>

\* C17 (as claimed): a run configured with batch_size < 1 is rejected before
\* it starts: no job is generated and no gate is exercised.
C17_RejectsBadBatchSize ==
    batch_size < 1 =>
        /\ stats.jobs_generated = 0
        /\ \A L \in Lanes : Arrivals(L) = 0

\* C18 (as claimed): with batch_size = 1 the gate is a pass-through: no job
\* is discarded at a gate, and a job is held at a gate only within its own
\* arrival instant, while the release its arrival triggered is being
\* delivered.
C18_PassThrough ==
    batch_size = 1 =>
        \A j \in Jobs :
            /\ proc[j].pc # "lost"
            /\ proc[j].pc = "assemble" =>
                  /\ proc[j].cam_wait_start = now
                  /\ ReleasePending

\* the yields of job_process: a resource request, a timed delay, a gate
SuspendedAt ==
    {"mac_request", "mac_service", "mac_error", "assemble", "cam_request", "cam_service"}

\* the run is over and nothing but the monitor's next tick is left in the
\* event queue: no event that could resume a job will ever be processed
RanDry ==
    /\ phase # "running"
    /\ \A i \in 1..Len(evq) : evq[i].kind = "monitor"

\* C16 (as claimed): with a horizon no delay reaches, every job suspended at
\* a yield eventually resumes from it, the jobs held at a release-all gate
\* when the generator has reached max_jobs included: once no event is left
\* that could resume a job, no job is left suspended.
C16_SuspendedResumes ==
    RanDry => \A j \in Jobs : proc[j].pc \notin SuspendedAt

\* C15 (as claimed): the second of two invocations of run_simulation with
\* the same configuration and the same seed reports the integer counters the
\* first one reported.
C15_Deterministic ==
    (run = 2 /\ phase = "reported") =>
        /\ stats.jobs_generated = first.jobs_generated
        /\ stats.jobs_terminated = first.jobs_terminated
        /\ stats.priority_1_count = first.priority_1_count

\* the events still to fire fire from the head of the queue: its order is
\* the order in which they will fire
FiresInDueOrder ==
    /\ \A i \in 1..Len(evq) : evq[i].t >= now
    /\ \A i, k \in 1..Len(evq) : i < k => evq[i].t <= evq[k].t

\* of two events due at the same instant, the one scheduled at an earlier
\* virtual time was scheduled first
FiresInScheduledOrder ==
    \A i, k \in 1..Len(evq) :
        (i < k /\ evq[i].t = evq[k].t) => evq[i].at <= evq[k].at

Firing(kind) == evq # <<>> /\ Head(evq).kind = kind /\ evq' # evq

\* the Release event of a resource with waiters fires while the released
\* unit is still free (a request made in between has not handed it to the
\* head waiter already): it was scheduled (the holder released) at this very
\* instant, and the head waiter holds a unit after the step
Regrant(res, cap, resN, kind) ==
    (Firing(kind) /\ res.queue # <<>> /\ count(res) < cap) =>
        /\ Head(evq).at = Head(evq).t
        /\ now' = Head(evq).t
        /\ Holding(resN, Head(res.queue).job)

\* a free unit next to a non-empty wait queue lasts no virtual time: the
\* Release event that will grant the unit is pending for the current instant
FreeUnitIsRegranted(res, cap, kind) ==
    (count(res) < cap /\ res.queue # <<>>) =>
        \E i \in 1..Len(evq) : evq[i].kind = kind /\ evq[i].t = now

\* a job that had to wait for its unit resumes from "yield req": the sample
\* it appends is the time of this step less the time at which it made the
\* request
RecordsWait(kind, wait_times, wait_timesN) ==
    (Firing(kind) /\ proc[Head(evq).job].req_time < Head(evq).t) =>
        /\ Len(wait_timesN) = Len(wait_times) + 1
        /\ wait_timesN[Len(wait_timesN)] = now' - proc[Head(evq).job].req_time

\* C22 (as claimed): when a holder releases a resource whose wait queue is not
\* empty, the head waiter is granted at the virtual instant of the release,
\* so the wait recorded for a waiter is the release (grant) time less the
\* time of its request.
C22_ZeroDelayRegrant ==
    /\ [](/\ FreeUnitIsRegranted(mac, MAC_CAPACITY, "mac_released")
          /\ FreeUnitIsRegranted(cam, CAM_CAPACITY, "cam_released"))
    /\ [][/\ Regrant(mac, MAC_CAPACITY, mac', "mac_released")
          /\ Regrant(cam, CAM_CAPACITY, cam', "cam_released")
          /\ RecordsWait("mac_granted", stats.mac_wait_times, stats'.mac_wait_times)
          /\ RecordsWait("cam_granted", stats.cam_wait_times, stats'.cam_wait_times)]_vars

\* the job processes that have ended
Terminated == {j \in Jobs : proc[j].pc = "terminated"}
Discarded == {j \in Jobs : proc[j].pc = "lost"}

\* a process ends at the end of job_process or at the lossy gate, never by
\* an exception, and the terminate counter is the number of jobs that ended
\* at the end of job_process
C23_Ended ==
    /\ \A j \in Jobs : proc[j].pc # "raised"
    /\ variant = "statistics" => Discarded = {}
    /\ stats.jobs_terminated = Cardinality(Terminated)
    /\ \A j \in Terminated \cup Discarded : ~Holding(cam, j) /\ ~Waiting(cam, j)

\* a job ends as Terminated in the step in which it gives back the stage-B
\* unit it held, that step adds one to jobs_terminated and no other step
\* changes it; a job ends as Discarded in the step in which it reaches a
\* lossy gate, having never asked for stage B; a job that has ended stays so
C23_Leaves ==
    /\ \A j \in Jobs :
          /\ (j \notin Terminated /\ proc'[j].pc = "terminated") =>
                /\ proc[j].pc = "cam_service"
                /\ Firing("cam_done") /\ Head(evq).job = j
                /\ Holding(cam, j) /\ ~Holding(cam', j)
                /\ stats'.jobs_terminated = stats.jobs_terminated + 1
          /\ (j \notin Discarded /\ proc'[j].pc = "lost") =>
                /\ variant # "statistics"
                /\ Routed(j)
                /\ stats'.jobs_terminated = stats.jobs_terminated
          /\ j \in Terminated \cup Discarded => proc'[j] = proc[j]
    /\ stats'.jobs_terminated # stats.jobs_terminated =>
          \E j \in Jobs : j \notin Terminated /\ proc'[j].pc = "terminated"

\* C23: a job leaves the system only as Terminated, after it was granted and
\* has released stage B, or as Discarded at a lossy gate; jobs_terminated is
\* incremented exactly once for each job that completes stage B and for no
\* other job.
C23_JobLifecycle == []C23_Ended /\ [][C23_Leaves]_vars

\* lossy variant: one job has been discarded at a gate and another one has
\* gone through stage B and is counted
C23_Witness ==
    /\ variant = "graph"
    /\ Discarded # {}
    /\ Terminated # {}
    /\ stats.jobs_terminated = 1

\* the other lane
Other(L) == IF L = "queo" THEN "quet" ELSE "queo"

\* the jobs suspended at the release-all gate of lane L
Pending(L) == {j \in Jobs : proc[j].lane = L /\ proc[j].pc = "assemble"}

\* what lane L keeps: the gate (its counter, its BatchAssembler with the jobs
\* still to release), the lane's wait list and the events that will release
\* jobs of the lane
GateState(L) ==
    [count |-> GateCount(L),
     gate |-> assembler[L],
     wait_list |-> stats[lane_wait_list(L)],
     releases |-> SelectSeq(evq, LAMBDA e : e.kind = "gate_released" /\ e.jobs # <<>>
                                              /\ proc[e.jobs[1]].lane = L)]

\* job j arrives at the gate of its lane: nothing of the other lane changes
\* and no other job moves
C24_Arrival ==
    \A j \in Jobs : \A L \in Lanes :
        (Routed(j) /\ proc'[j].lane = L) =>
            /\ GateState(Other(L))' = GateState(Other(L))
            /\ Pending(Other(L))' = Pending(Other(L))
            /\ \A k \in Jobs \ {j} : proc'[k] = proc[k]

\* a release fires: the jobs it resumes are of one lane, no other job moves,
\* and the count and the pending jobs of the other lane are as before
C24_Release ==
    Firing("gate_resumed") =>
        LET resumed == {Head(evq).jobs[i] : i \in 1..Len(Head(evq).jobs)}
        IN  \A L \in Lanes :
                (\E j \in resumed : proc[j].lane = L) =>
                    /\ \A j \in resumed : proc[j].lane = L
                    /\ \A k \in Jobs \ resumed : proc'[k] = proc[k]
                    /\ Pending(Other(L))' = Pending(Other(L))
                    /\ GateCount(Other(L))' = GateCount(Other(L))
                    /\ assembler'[Other(L)] = assembler[Other(L)]

Delay(e) == e.t - e.at

\* C25: every delay handed to the scheduler (inter-arrival, stage-A service,
\* error correction, stage-B service) is >= 0, a negative normal draw being
\* clamped to 0, so no event is scheduled for a time before the current one.
C25_NoNegativeDelay ==
    \A i \in 1..Len(evq) :
        /\ Delay(evq[i]) >= 0
        /\ evq[i].at <= now
        /\ evq[i].t >= now

\* a negative draw was clamped: a stage-B service timeout is pending with
\* delay 0 (no draw is 0)
C25_Witness ==
    /\ 0 \notin Gauss
    /\ \E g \in Gauss : g < 0
    /\ \E i \in 1..Len(evq) : evq[i].kind = "cam_done" /\ Delay(evq[i]) = 0

\* the jobs suspended at the release-all gate of lane L whose release has not
\* been triggered (a job whose release event is triggered and not yet fired
\* is on its way out)
Held(L) ==
    {j \in Pending(L) :
        \A i \in 1..Len(evq) :
            evq[i].kind = "gate_released" =>
                \A k \in 1..Len(evq[i].jobs) : evq[i].jobs[k] # j}

\* C26 (as claimed): release-all gate: in every reachable state
\* BatchAssembler.batch_count, the value report() prints, is the number of
\* job processes suspended at that gate.
C26_CountIsSuspended ==
    variant = "statistics" =>
        \A L \in Lanes : assembler[L].batch_count = Cardinality(Held(L))

\* an event boundary at which no job is between two places: no process is
\* started and yet to run its first statement, no triggered release is yet
\* to resume its jobs
Settled ==
    \A i \in 1..Len(evq) : evq[i].kind \notin {"job_start", "gate_released"}

\* C27 (as claimed): release-all conservation: at an event boundary the
\* number of job processes started is jobs_terminated plus report()'s
\* total_remaining.
C27_Conservation ==
    (variant = "statistics" /\ Settled) =>
        Cardinality(Started_jobs) =
            stats.jobs_terminated + total_remaining(mac, cam, assembler)

\* lossy variants: the arrivals that reset a lane counter to 0, every
\* threshold-th arrival of each lane
GatePasses ==
    (Arrivals("queo") \div threshold(World)) + (Arrivals("quet") \div threshold(World))

Listed(j, L) == \E i \in 1..Len(stats[lane_wait_list(L)]) : stats[lane_wait_list(L)][i] = j

\* the jobs in stage-B service: they resumed from "yield req" with a unit and
\* have not given it back
InService == {j \in Jobs : proc[j].pc = "cam_service"}

\* the job processes suspended at the stage-B request
AtRequest == {j \in Jobs : proc[j].pc = "cam_request"}

\* each job id is in the wait list of its own lane, once, exactly while its
\* process is suspended at the stage-B request, and in no other list
C28_Lists ==
    \A j \in Jobs : \A L \in Lanes :
        /\ Listed(j, L) <=> (j \in AtRequest /\ proc[j].lane = L)
        /\ Cardinality({i \in 1..Len(stats[lane_wait_list(L)]) :
                            stats[lane_wait_list(L)][i] = j}) <= 1

\* C28 (as claimed): lossy variants: at every event boundary the number of
\* gate passes is jobs_terminated + len(queo_wait_list) + len(quet_wait_list)
\* + the stage-B units in use, and each job id is in a lane wait list exactly
\* while that job waits for stage B.  Stated for the batch size of the
\* program as written.
C28_LossyConservation ==
    (variant # "statistics" /\ batch_size = BATCH_SIZE) =>
        /\ GatePasses = stats.jobs_terminated + Len(stats.queo_wait_list)
                            + Len(stats.quet_wait_list) + count(cam)
        /\ C28_Lists

\* C28 (as amended): lossy variants: at every event boundary the number of
\* gate passes is jobs_terminated + len(queo_wait_list) + len(quet_wait_list)
\* + the number of jobs in stage-B service, which is the stage-B units in use
\* less the units granted to a process that has not resumed yet (its resumption
\* is pending for the current instant); each job id is in the wait list of its
\* lane exactly while its process is suspended at the stage-B request.
C28_LossyConservationAmended ==
    variant # "statistics" =>
        /\ GatePasses = stats.jobs_terminated + Len(stats.queo_wait_list)
                            + Len(stats.quet_wait_list) + Cardinality(InService)
        /\ count(cam) = Cardinality(InService)
                            + Cardinality({j \in AtRequest : Holding(cam, j)})
        /\ \A j \in AtRequest :
              Holding(cam, j) =>
                  \E i \in 1..Len(evq) :
                      evq[i].kind = "cam_granted" /\ evq[i].job = j /\ evq[i].t = now
        /\ C28_Lists

\* graph variant: one job has terminated, one is in stage-B service and one,
\* which passed its gate earlier than now, is queued for stage B and listed
C28_Witness ==
    /\ variant = "graph"
    /\ stats.jobs_terminated + Cardinality(InService) >= 1
    /\ \E j \in Jobs :
          /\ Waiting(cam, j)
          /\ Listed(j, proc[j].lane)
          /\ proc[j].cam_wait_start < now

\* the jobs that have resumed from their stage-A request with a unit: the
\* stage-A grants as job_process sees them
GrantedMac == {j \in Jobs : proc[j].pc \notin {"unborn", "start", "mac_request"}}

NonNegative(samples) == \A i \in 1..Len(samples) : samples[i] >= 0

\* list a has only grown into list b
Extends(a, b) == Len(a) <= Len(b) /\ SubSeq(b, 1, Len(a)) = a

C29_Consistent ==
    /\ Len(stats.system_times) = stats.jobs_terminated
    /\ Len(stats.mac_wait_times) = Cardinality(GrantedMac)
    /\ stats.jobs_terminated <= stats.jobs_generated
    /\ stats.priority_1_count <= stats.jobs_generated
    /\ NonNegative(stats.mac_wait_times)
    /\ NonNegative(stats.cam_wait_times)
    /\ NonNegative(stats.queo_wait_times)
    /\ NonNegative(stats.quet_wait_times)
    /\ NonNegative(stats.system_times)

C29_NeverShrinks ==
    /\ stats'.jobs_generated >= stats.jobs_generated
    /\ stats'.jobs_terminated >= stats.jobs_terminated
    /\ stats'.priority_1_count >= stats.priority_1_count
    /\ Extends(stats.mac_wait_times, stats'.mac_wait_times)
    /\ Extends(stats.cam_wait_times, stats'.cam_wait_times)
    /\ Extends(stats.queo_wait_times, stats'.queo_wait_times)
    /\ Extends(stats.quet_wait_times, stats'.quet_wait_times)
    /\ Extends(stats.system_times, stats'.system_times)

\* C29: in every reachable state len(system_times) = jobs_terminated,
\* len(mac_wait_times) is the number of stage-A grants so far (a grant being
\* counted when the granted job resumes from its request), jobs_terminated <=
\* jobs_generated, priority_1_count <= jobs_generated and every recorded wait
\* or system time is >= 0; no step makes one of these counters smaller or
\* one of these lists other than longer by appended samples.
C29_CounterSampleConsistency == []C29_Consistent /\ [][C29_NeverShrinks]_vars

\* a priority-1 job has waited a positive time for stage A, and a job has
\* terminated with a positive system time
C29_Witness ==
    /\ stats.priority_1_count >= 1
    /\ \E i \in 1..Len(stats.mac_wait_times) : stats.mac_wait_times[i] > 0
    /\ stats.jobs_terminated >= 1
    /\ \E i \in 1..Len(stats.system_times) : stats.system_times[i] > 0

\* the sample this step appends to cam_wait_times is the time from the job's
\* stage-B request (the time attribute of its request object) to this step,
\* in which the job resumes with the unit
C30_Sample ==
    Firing("cam_granted") =>
        /\ Len(stats'.cam_wait_times) = Len(stats.cam_wait_times) + 1
        /\ stats'.cam_wait_times[Len(stats'.cam_wait_times)]
              = Head(evq).t - proc[Head(evq).job].req_time

\* C30 (as claimed): each sample appended to cam_wait_times is the virtual
\* time between the job's stage-B request and its stage-B grant; the time the
\* job spent suspended at the batch gate is not part of it.
C30_StageBWait == [][C30_Sample]_vars

\* the jobs in stage-A service or error correction
InMac == {j \in Jobs : proc[j].pc \in {"mac_service", "mac_error"}}

\* the jobs that were handed a unit of the resource and whose process is yet
\* to resume from its request
GrantPending(res, pc) == {j \in Jobs : proc[j].pc = pc /\ Holding(res, j)}

\* no job holds units of both resources, and a job at or past its lane gate
\* holds no stage-A unit
C31_Discipline ==
    \A j \in Jobs :
        /\ ~(Holding(mac, j) /\ Holding(cam, j))
        /\ proc[j].lane # "none" => ~Holding(mac, j) /\ ~Waiting(mac, j)
        /\ Holding(mac, j) => proc[j].pc \in {"mac_request", "mac_service", "mac_error"}
        /\ Holding(cam, j) => proc[j].pc \in {"cam_request", "cam_service"}

\* C31 (as claimed): in every reachable state stage A's in_use is the number
\* of jobs in stage-A service or error correction, stage B's in_use is the
\* number of jobs in stage-B service, no job holds units of both resources,
\* and a job has released its stage-A unit before it is routed to a lane gate.
\* Stated for the batch size of the program as written.
C31_HoldingDiscipline ==
    batch_size = BATCH_SIZE =>
        /\ count(mac) = Cardinality(InMac)
        /\ count(cam) = Cardinality(InService)
        /\ C31_Discipline

\* a unit handed to a job whose process has not resumed yet lasts no virtual
\* time: the resumption is pending for the current instant
ResumesNow(res, pc, kind) ==
    \A j \in GrantPending(res, pc) :
        \E i \in 1..Len(evq) : evq[i].kind = kind /\ evq[i].job = j /\ evq[i].t = now

\* C31 (as amended): in every reachable state stage A's in_use is the number
\* of jobs in stage-A service or error correction plus the jobs granted a
\* stage-A unit that have not resumed from their request yet, which they do
\* within the current instant, and likewise stage B's in_use and the jobs in
\* stage-B service; no job holds units of both resources, and a job has
\* released its stage-A unit before it is routed to a lane gate.
C31_HoldingDisciplineAmended ==
    /\ count(mac) = Cardinality(InMac) + Cardinality(GrantPending(mac, "mac_request"))
    /\ count(cam) = Cardinality(InService) + Cardinality(GrantPending(cam, "cam_request"))
    /\ ResumesNow(mac, "mac_request", "mac_granted")
    /\ ResumesNow(cam, "cam_request", "cam_granted")
    /\ C31_Discipline

\* one job is in stage-A service or error correction, another is in stage-B
\* service, and a third waits in the stage-A queue
C31_Witness ==
    /\ InMac # {}
    /\ InService # {}
    /\ mac.queue # <<>>
    /\ count(mac) = 1 /\ count(cam) = 1
============================================================================
